---- MODULE Spec2Model ----
(***************************************************************************)
(* A model of edge.py: the live region tuner (live_tuner, with the point   *)
(* acquisition wait_for_enter and the pure clamp_region) and the           *)
(* edge-triggered scanner (double Enter on edges, single Enter on idle).   *)
(*                                                                         *)
(* Time is counted in centiseconds (1 unit = 0.01 s), the largest unit in  *)
(* which every duration of the source is a whole number: interval 0.03 s   *)
(* is 3, cooldown 0.40 s is 40, the 2.0 s wait is 200, idle_timeout 25.0 s *)
(* is 2500.  time.time() is the variable clock.  Edge ratios are counted   *)
(* in percent (0.10 is 10).                                                *)
(***************************************************************************)
EXTENDS Integers, Sequences, FiniteSets

VARIABLES
    pc,             \* position of the single thread of the program
    script,         \* environment: which family of screen contents is fed
    \* ---- live_tuner / wait_for_enter
    pts,            \* the points wait_for_enter has returned so far
    cancel_key,     \* a cancel key (Esc / q) was pressed during acquisition
    x1, y1, x2, y2, \* the region (locals of live_tuner, arguments of scanner)
    lo, hi,         \* the Canny thresholds
    use_fine,       \* the one-shot fine-step flag
    mon,            \* sct.monitors[1]
    keys_left,      \* tuner polls still to be explored
    \* ---- scanner
    clock,          \* time.time()
    now,            \* the local `now` of the current tick
    last_trigger_t, \* the local last_trigger_t
    edge_ratio,     \* the local edge_ratio of the current tick (percent)
    \* ---- observation of the run
    fired,          \* branch taken on the current tick: none / double / single
    acts,           \* the confirm actions completed on the current tick
    prev,           \* summary of the previous tick
    first_tick,     \* the current tick is the first of the loop
    first_edge,     \* the first tick saw edges
    later_edge,     \* some tick after the first saw edges
    singles,        \* idle actions completed so far
    grabbed,        \* sct.grab has been called
    pressed,        \* press_enter_multimethod_once has been called
    \* ---- the confirm action of the current tick
    tries,          \* its calls of press_enter_multimethod_once, in order
    e1, e2,         \* the locals e1 and e2 of the confirm action
    ok,             \* the local ok of scanner: what the confirm action returned
    \* ---- scanner called with --focus-title, and the operator's Ctrl-C
    focus_title,    \* a focus title was given
    focus_log,      \* what line 272 logged: "none" / "OK" / "not found/denied"
    intr_at,        \* where a KeyboardInterrupt arrived ("none": it did not)
    stop_log,       \* "Stopped." has been logged
    \* ---- more of live_tuner / wait_for_enter
    tried,          \* the methods tried by the acquisition in progress
    cmd,            \* the kind of key the last poll of live_tuner returned
    step,           \* the local step of live_tuner
    since_fine      \* commands polled since the last ';' (NoFine: none yet)

calVars  == <<pts, cancel_key, x1, y1, x2, y2, lo, hi, use_fine, mon, keys_left>>
scanVars == <<clock, now, last_trigger_t, edge_ratio>>
obsVars  == <<fired, acts, prev, first_tick, first_edge, later_edge, singles>>
pressVars == <<tries, e1, e2, ok>>
runVars  == <<focus_title, focus_log, intr_at, stop_log>>
tunVars  == <<cmd, step, since_fine>>
auxVars  == <<pressVars, runVars, tunVars, tried>>
vars     == <<pc, script, calVars, scanVars, obsVars, grabbed, pressed, auxVars>>

Max(a, b) == IF a >= b THEN a ELSE b
Min(a, b) == IF a <= b THEN a ELSE b

(***************************************************************************)
(* Program constants.                                                      *)
(***************************************************************************)
STEP         == 5
STEP_FINE    == 1
interval     == 3
cooldown     == 40
idle_timeout == 2500
DoubleWait   == 200
FocusSleep   == 20

(***************************************************************************)
(* Bounds of the model.                                                    *)
(***************************************************************************)
MaxCaptureTime == 1     \* grab + Canny take 0..MaxCaptureTime units
MaxPressTime   == 1     \* one press_enter_multimethod_once takes 0..MaxPressTime units
MaxFreeClock   == 300   \* horizon of a run fed arbitrary edge ratios
MaxLateClock   == 5020  \* horizon of a run fed edges only when idle
MaxShortClock  == 43    \* horizon of the scanner when run after a calibration
MaxOutside     == 3     \* clamp_region inputs reach MaxOutside below the origin
MaxCoord       == 6     \* ... and up to MaxCoord
MaxMonSize     == 4     \* clamp_region monitors are up to MaxMonSize wide and high
MaxKeys        == 3     \* tuner polls explored from a calibrated region
MaxMainKeys    == 0     \* tuner polls explored in a run of the whole program
MaxArgExcess   == 2     \* --canny-lo / --canny-hi reach this far outside 0..255
TunerMonW      == 12    \* width of the monitor the tuner runs on
TunerMonH      == 9     \* height of the monitor the tuner runs on
MaxRunClock    == 2600  \* horizon of a run that a Ctrl-C may end
MaxLiveClock   == 3000  \* more than a run whose time restarts at each action reaches

EdgeRatios == {0, 10}

NoTick == [edge |-> 0, fired |-> "start", end |-> 0]

(***************************************************************************)
(* The environment.  Under "any" every tick's edge ratio is arbitrary;     *)
(* under "late" the screen shows edges only on the first tick and on ticks *)
(* sampled when idle_timeout has already elapsed ("run" is "late" with a   *)
(* shorter horizon).  Under "live" the edge ratios are arbitrary and the   *)
(* run has no end: the origin of time, of which the program uses only      *)
(* differences, is moved to last_trigger_t at the end of every tick, and   *)
(* the count of the idle actions restarts there.                           *)
(* Under "press" each injection mechanism may fail; the runs that study    *)
(* the timing of the loop, which only logs the results of the presses,     *)
(* are fed mechanisms that work.                                           *)
(***************************************************************************)
Horizon ==
    CASE script = "late"  -> MaxLateClock
      [] script = "short" -> MaxShortClock
      [] script = "run"   -> MaxRunClock
      [] script = "live"  -> MaxLiveClock
      [] OTHER            -> MaxFreeClock

EdgeChoices(t) ==
    IF script \in {"late", "run"} /\ ~first_tick /\ t - last_trigger_t < idle_timeout
    THEN {0}
    ELSE EdgeRatios

\* the origin of time moves by Shift at the end of a tick
Shift == IF script = "live" THEN last_trigger_t ELSE 0

(***************************************************************************)
(* press_enter_multimethod_once (lines 55-70) and sendinput_enter_once     *)
(* (lines 42-53).  A mechanism injects the key ("ok") or raises an         *)
(* Exception ("exc"); SendInput reports a blocked injection by returning   *)
(* 0, a value line 53 drops ("blocked").                                   *)
(***************************************************************************)
Mechanisms == <<"pyautogui", "keyboard", "sendinput">>

MechOutcomes(i) ==
    IF script = "press"
    THEN IF Mechanisms[i] = "sendinput" THEN {"ok", "blocked", "exc"} ELSE {"ok", "exc"}
    ELSE {"ok"}

PressOutcomes ==
    {o \in [1..3 -> {"ok", "blocked", "exc"}] : \A i \in 1..3 : o[i] \in MechOutcomes(i)}

\* ok after the three try blocks: set by every block that did not raise
PressResult_All(o) == \A i \in 1..3 : o[i] # "exc"

PressResult(o) == \E i \in 1..3 : o[i] # "exc"

\* the three try blocks run one after the other, whatever the earlier did
Attempts(o) == [i \in 1..3 |-> <<Mechanisms[i], o[i]>>]

\* one call that starts at time t and takes d
PressOnce(o, t, d) ==
    [att |-> Attempts(o), res |-> PressResult(o), from |-> t, to |-> t + d]

\* line 81
DoubleResult_Either(a, b) == a \/ b

DoubleResult(a, b) == a /\ b

(***************************************************************************)
(* scanner                                                                 *)
(***************************************************************************)
\* lines 167-187: what try_focus_window does in each case of the lookup:
\* it returns True or False, or an exception leaves it ("raise").  The
\* import (lines 168-171) and the restore / foreground calls (lines 182-187)
\* are inside a try; EnumWindows and the handler it calls (lines 173-179)
\* are not.
FocusOutcomes == {"no_module", "enum_error", "no_match", "denied", "focused"}

try_focus_window(out) ==
    CASE out = "no_module"  -> "False"
      [] out = "enum_error" -> "raise"
      [] out = "no_match"   -> "False"
      [] out = "denied"     -> "False"
      [] OTHER              -> "True"

\* lines 269-273: the optional focus step, before the try of line 288; an
\* exception that leaves try_focus_window leaves scanner and main
Focus ==
    /\ pc = "focus"
    /\ IF focus_title
       THEN \E out \in FocusOutcomes :
              IF try_focus_window(out) = "raise"
              THEN /\ pc' = "crashed"
                   /\ UNCHANGED <<focus_log, clock>>
              ELSE /\ focus_log' = IF try_focus_window(out) = "True"
                                   THEN "OK" ELSE "not found/denied"
                   /\ clock' = clock + FocusSleep
                   /\ pc' = "scan_entry"
       ELSE /\ pc' = "scan_entry"
            /\ UNCHANGED <<focus_log, clock>>
    /\ UNCHANGED <<script, calVars, now, last_trigger_t, edge_ratio, obsVars,
                   grabbed, pressed, pressVars, focus_title, intr_at, stop_log,
                   tunVars, tried>>

\* The positions of scanner: before the try of line 288 (lines 269-287)
\* and inside it (lines 289-311).
BeforeTry == {"focus", "scan_entry"}

InTry == {"grab", "decide", "enter1", "wait", "enter2", "idle_enter", "sleep"}

\* A KeyboardInterrupt (Ctrl-C) arrives while scanner is at pc.  Inside the
\* try it reaches line 312 (the except Exception of the press blocks does not
\* catch it): "Stopped." is logged and scanner returns.  Before the try
\* nothing catches it: the process ends with a traceback.
Interrupt ==
    /\ pc \in BeforeTry \cup InTry
    /\ intr_at' = pc
    /\ IF pc \in InTry
       THEN /\ pc' = "stopped"
            /\ stop_log' = TRUE
       ELSE /\ pc' = "killed"
            /\ UNCHANGED stop_log
    /\ UNCHANGED <<script, calVars, scanVars, obsVars, grabbed, pressed,
                   pressVars, focus_title, focus_log, tunVars, tried>>

\* lines 275-285: the timer starts when the loop is about to start
ScanStart ==
    /\ pc = "scan_entry"
    /\ pc' = "grab"
    /\ last_trigger_t' = clock
    /\ UNCHANGED <<script, calVars, clock, now, edge_ratio, obsVars, grabbed, pressed,
                   auxVars>>

\* lines 290-295: grab, Canny, edge_ratio, now = time.time()
Capture ==
    /\ pc = "grab"
    /\ \E d \in 0..MaxCaptureTime :
         /\ clock' = clock + d
         /\ now' = clock + d
         /\ \E e \in EdgeChoices(clock + d) :
              /\ edge_ratio' = e
              /\ first_edge' = IF first_tick THEN (e > 0) ELSE first_edge
              /\ later_edge' = IF first_tick THEN later_edge ELSE (later_edge \/ e > 0)
    /\ grabbed' = TRUE
    /\ fired' = "none"
    /\ acts' = <<>>
    /\ tries' = <<>>
    /\ e1' = FALSE /\ e2' = FALSE /\ ok' = FALSE
    /\ pc' = "decide"
    /\ UNCHANGED <<script, calVars, last_trigger_t, prev, first_tick, singles, pressed,
                   runVars, tunVars, tried>>

\* lines 298 and 305: the if / elif of one tick
BranchIdleFirst(e, t, last) ==
    IF t - last >= idle_timeout THEN "single"
    ELSE IF e > 0 /\ t - last >= cooldown THEN "double"
    ELSE "none"

BranchNoCooldown(e, t, last) ==
    IF e > 0 THEN "double"
    ELSE IF t - last >= idle_timeout THEN "single"
    ELSE "none"

BranchNoIdle(e, t, last) ==
    IF e > 0 /\ t - last >= cooldown THEN "double"
    ELSE "none"

BranchStrict(e, t, last) ==
    IF e > 0 /\ t - last > cooldown THEN "double"
    ELSE IF t - last > idle_timeout THEN "single"
    ELSE "none"

Branch(e, t, last) ==
    IF e > 0 /\ t - last >= cooldown THEN "double"
    ELSE IF t - last >= idle_timeout THEN "single"
    ELSE "none"

Decide ==
    /\ pc = "decide"
    /\ fired' = Branch(edge_ratio, now, last_trigger_t)
    /\ pc' = CASE fired' = "double" -> "enter1"
               [] fired' = "single" -> "idle_enter"
               [] OTHER             -> "sleep"
    /\ UNCHANGED <<script, calVars, scanVars, acts, prev, first_tick, first_edge,
                   later_edge, singles, grabbed, pressed,
                   auxVars>>

\* lines 73-75: first press of press_enter_double_multimethod_logged
Enter1 ==
    /\ pc = "enter1"
    /\ \E d \in 0..MaxPressTime, o \in PressOutcomes :
         /\ clock' = clock + d
         /\ tries' = Append(tries, PressOnce(o, clock, d))
         /\ e1' = PressResult(o)
    /\ pressed' = TRUE
    /\ pc' = "wait"
    /\ UNCHANGED <<script, calVars, now, last_trigger_t, edge_ratio, obsVars, grabbed,
                   e2, ok, runVars, tunVars, tried>>

\* lines 76-77: time.sleep(2.0)
Wait ==
    /\ pc = "wait"
    /\ clock' = clock + DoubleWait
    /\ pc' = "enter2"
    /\ UNCHANGED <<script, calVars, now, last_trigger_t, edge_ratio, obsVars,
                   grabbed, pressed,
                   auxVars>>

\* line 302 and line 309: what last_trigger_t is set to after an action
StampTick(t, tnow) == tnow

Stamp(t, tnow) == t

\* lines 78-81 and 301-302: second press, then last_trigger_t = time.time()
Enter2 ==
    /\ pc = "enter2"
    /\ \E d \in 0..MaxPressTime, o \in PressOutcomes :
         /\ clock' = clock + d
         /\ tries' = Append(tries, PressOnce(o, clock, d))
         /\ e2' = PressResult(o)
    /\ ok' = DoubleResult(e1, e2')
    /\ pressed' = TRUE
    /\ last_trigger_t' = Stamp(clock', now)
    /\ acts' = Append(acts, "double")
    /\ pc' = "sleep"
    /\ UNCHANGED <<script, calVars, now, edge_ratio, fired, prev, first_tick,
                   first_edge, later_edge, singles, grabbed,
                   e1, runVars, tunVars, tried>>

\* lines 83-87 and 306-309: the idle single Enter, then
\* last_trigger_t = time.time()
IdleEnter ==
    /\ pc = "idle_enter"
    /\ \E d \in 0..MaxPressTime, o \in PressOutcomes :
         /\ clock' = clock + d
         /\ tries' = Append(tries, PressOnce(o, clock, d))
         /\ e1' = PressResult(o)
    /\ ok' = e1'
    /\ pressed' = TRUE
    /\ last_trigger_t' = Stamp(clock', now)
    /\ singles' = singles + 1
    /\ acts' = Append(acts, "single")
    /\ pc' = "sleep"
    /\ UNCHANGED <<script, calVars, now, edge_ratio, fired, prev,
                   first_tick, first_edge, later_edge, grabbed,
                   e2, runVars, tunVars, tried>>

Sleep_Restamp ==
    /\ pc = "sleep"
    /\ clock < Horizon
    /\ clock' = clock + interval - Shift
    /\ now' = now - Shift
    /\ last_trigger_t' = clock'
    /\ prev' = [edge |-> edge_ratio, fired |-> fired, end |-> clock - Shift]
    /\ singles' = IF script = "live" THEN 0 ELSE singles
    /\ first_tick' = FALSE
    /\ pc' = "grab"
    /\ UNCHANGED <<script, calVars, edge_ratio, fired, acts,
                   first_edge, later_edge, grabbed, pressed, auxVars>>

\* line 311: time.sleep(interval), then the next iteration (in a run without
\* end the times are from here on counted from last_trigger_t)
Sleep ==
    /\ pc = "sleep"
    /\ clock < Horizon
    /\ clock' = clock + interval - Shift
    /\ now' = now - Shift
    /\ last_trigger_t' = last_trigger_t - Shift
    /\ prev' = [edge |-> edge_ratio, fired |-> fired, end |-> clock - Shift]
    /\ singles' = IF script = "live" THEN 0 ELSE singles
    /\ first_tick' = FALSE
    /\ pc' = "grab"
    /\ UNCHANGED <<script, calVars, edge_ratio, fired, acts,
                   first_edge, later_edge, grabbed, pressed, auxVars>>

ScanNext ==
    \/ ScanStart
    \/ Capture
    \/ Decide
    \/ Enter1
    \/ Wait
    \/ Enter2
    \/ IdleEnter
    \/ Sleep

(***************************************************************************)
(* clamp_region (lines 155-160)                                            *)
(***************************************************************************)
clamp_region_NoUpper(a1, b1, a2, b2, m) ==
    LET nx1 == Max(m.left, a1)
        ny1 == Max(m.top, b1)
        nx2 == Max(nx1 + 1, Min(a2, m.left + m.width - 1))
        ny2 == Max(ny1 + 1, Min(b2, m.top + m.height - 1))
    IN  <<nx1, ny1, nx2, ny2>>

clamp_region(a1, b1, a2, b2, m) ==
    LET nx1 == Max(m.left, Min(a1, m.left + m.width - 2))
        ny1 == Max(m.top,  Min(b1, m.top + m.height - 2))
        nx2 == Max(nx1 + 1, Min(a2, m.left + m.width - 1))
        ny2 == Max(ny1 + 1, Min(b2, m.top + m.height - 1))
    IN  <<nx1, ny1, nx2, ny2>>

\* x1, y1, x2, y2 = r
SetRegion(r) == x1' = r[1] /\ y1' = r[2] /\ x2' = r[3] /\ y2' = r[4]

\* the call of clamp_region on the inputs drawn by InitClamp
ClampApply ==
    /\ pc = "clamp_in"
    /\ SetRegion(clamp_region(x1, y1, x2, y2, mon))
    /\ pc' = "clamp_out"
    /\ UNCHANGED <<script, pts, cancel_key, lo, hi, use_fine, mon, keys_left,
                   scanVars, obsVars, grabbed, pressed,
                   auxVars>>

(***************************************************************************)
(* wait_for_enter (lines 101-153).  Key codes are those of cv2.waitKey     *)
(* after & 0xFF: 13 and 10 are Enter, 27 is Esc, 113 is q, 255 is "no key" *)
(* (-1 & 0xFF), 97 stands for any key without a binding.                   *)
(***************************************************************************)
K_ENTER == 13
K_LF    == 10
K_ESC   == 27
K_q     == 113
K_NONE  == 255
K_OTHER == 97

AcqKeys == {K_ENTER, K_LF, K_ESC, K_q, K_NONE, K_OTHER}

CancelKeys == {K_ESC, K_q}

\* the point pyautogui.position() returns is stored in the corner being set
Record(p) ==
    /\ pts' = Append(pts, p)
    /\ tried' = <<>>
    /\ IF Len(pts) = 0
       THEN /\ x1' = p[1] /\ y1' = p[2]
            /\ UNCHANGED <<x2, y2>>
            /\ pc' = "acquire"
       ELSE /\ x2' = p[1] /\ y2' = p[2]
            /\ UNCHANGED <<x1, y1>>
            /\ pc' = "validate"

\* lines 107-131: print the prompt, then try the global keyboard hook; an
\* Exception of the import or of keyboard.wait falls through to the window,
\* and an error of cv2.namedWindow (line 131, outside the try) leaves
\* wait_for_enter: there is no third method
AcquireBegin ==
    /\ pc = "acquire"
    /\ \E hook_ok \in BOOLEAN, window_ok \in BOOLEAN :
         IF hook_ok
         THEN /\ tried' = <<"hook">>
              /\ pc' = "hook"
         ELSE /\ tried' = <<"hook", "window">>
              /\ pc' = IF window_ok THEN "window" ELSE "acq_failed"
    /\ UNCHANGED <<script, calVars, scanVars, obsVars, grabbed, pressed,
                   pressVars, runVars, tunVars>>

\* lines 113-115: keyboard.wait("enter") returns on Enter only; every other
\* key, Esc and q included, leaves it blocked
HookKey(Points) ==
    /\ pc = "hook"
    /\ \E k \in AcqKeys \ {K_NONE} :
         IF k \in {K_ENTER, K_LF}
         THEN /\ \E p \in Points : Record(p)
              /\ UNCHANGED cancel_key
         ELSE /\ cancel_key' = (cancel_key \/ k \in CancelKeys)
              /\ UNCHANGED <<pc, pts, x1, y1, x2, y2, tried>>
    /\ UNCHANGED <<script, lo, hi, use_fine, mon, keys_left, scanVars, obsVars,
                   grabbed, pressed, pressVars, runVars, tunVars>>

\* lines 139-153: the polling loop of the prompt window; Esc / q raise
\* KeyboardInterrupt, which nothing catches: the process ends
WindowKey(Points) ==
    /\ pc = "window"
    /\ \E k \in AcqKeys :
         CASE k \in {K_ENTER, K_LF} ->
                /\ \E p \in Points : Record(p)
                /\ UNCHANGED cancel_key
           [] k \in CancelKeys ->
                /\ cancel_key' = TRUE
                /\ pc' = "cancelled"
                /\ UNCHANGED <<pts, x1, y1, x2, y2, tried>>
           [] OTHER ->
                UNCHANGED <<pc, pts, cancel_key, x1, y1, x2, y2, tried>>
    /\ UNCHANGED <<script, lo, hi, use_fine, mon, keys_left, scanVars, obsVars,
                   grabbed, pressed, pressVars, runVars, tunVars>>

(***************************************************************************)
(* live_tuner (lines 190-260)                                              *)
(***************************************************************************)
InvalidRegion_XOnly(a1, b1, a2, b2) == a2 <= a1

\* line 195
InvalidRegion(a1, b1, a2, b2) == a2 <= a1 \/ b2 <= b1

\* lines 195-204: SystemExit on an invalid region, else the first clamp
Validate ==
    /\ pc = "validate"
    /\ IF InvalidRegion(x1, y1, x2, y2)
       THEN /\ pc' = "exit_invalid"
            /\ UNCHANGED <<x1, y1, x2, y2, use_fine>>
       ELSE /\ SetRegion(clamp_region(x1, y1, x2, y2, mon))
            /\ use_fine' = FALSE
            /\ pc' = "tuner_grab"
    /\ UNCHANGED <<script, pts, cancel_key, lo, hi, mon, keys_left, scanVars,
                   obsVars, grabbed, pressed,
                   auxVars>>

\* lines 207-223: one capture of the current region and its preview
TunerGrab ==
    /\ pc = "tuner_grab"
    /\ grabbed' = TRUE
    /\ pc' = "tuner_key"
    /\ UNCHANGED <<script, calVars, scanVars, obsVars, pressed,
                   auxVars>>

K_FINE  == 59
K_LEFT  == 81
K_UP    == 82
K_RIGHT == 83
K_DOWN  == 84
K_j     == 106
K_l     == 108
K_i     == 105
K_k     == 107
K_LO_DN == 91
K_LO_UP == 93
K_HI_DN == 123
K_HI_UP == 125
K_s     == 115
K_p     == 112

MoveKeys   == {K_LEFT, K_UP, K_RIGHT, K_DOWN}
ResizeKeys == {K_j, K_l, K_i, K_k}
ThreshKeys == {K_LO_DN, K_LO_UP, K_HI_DN, K_HI_UP}
TunerKeys  == {K_NONE, K_q, K_ESC, K_FINE, K_s, K_p, K_OTHER}
                  \cup MoveKeys \cup ResizeKeys \cup ThreshKeys

\* lines 239-246: the region after a move / resize key, before the re-clamp
Moved_ResizeBoth(k, s) ==
    CASE k = K_LEFT  -> <<x1 - s, y1, x2 - s, y2>>
      [] k = K_UP    -> <<x1, y1 - s, x2, y2 - s>>
      [] k = K_RIGHT -> <<x1 + s, y1, x2 + s, y2>>
      [] k = K_DOWN  -> <<x1, y1 + s, x2, y2 + s>>
      [] k = K_j     -> <<x1 + s, y1, x2 - s, y2>>
      [] k = K_l     -> <<x1 - s, y1, x2 + s, y2>>
      [] k = K_i     -> <<x1, y1 + s, x2, y2 - s>>
      [] k = K_k     -> <<x1, y1 - s, x2, y2 + s>>
      [] OTHER       -> <<x1, y1, x2, y2>>

Moved(k, s) ==
    CASE k = K_LEFT  -> <<x1 - s, y1, x2 - s, y2>>
      [] k = K_UP    -> <<x1, y1 - s, x2, y2 - s>>
      [] k = K_RIGHT -> <<x1 + s, y1, x2 + s, y2>>
      [] k = K_DOWN  -> <<x1, y1 + s, x2, y2 + s>>
      [] k = K_j     -> <<x1, y1, x2 - s, y2>>
      [] k = K_l     -> <<x1, y1, x2 + s, y2>>
      [] k = K_i     -> <<x1, y1, x2, y2 - s>>
      [] k = K_k     -> <<x1, y1, x2, y2 + s>>
      [] OTHER       -> <<x1, y1, x2, y2>>

\* lines 248-249
NewLo(k) ==
    CASE k = K_LO_DN -> Max(0, lo - 1)
      [] k = K_LO_UP -> Min(255, lo + 1)
      [] OTHER       -> lo

\* lines 250-251
NewHi(k) ==
    CASE k = K_HI_DN -> Max(0, hi - 1)
      [] k = K_HI_UP -> Min(255, hi + 1)
      [] OTHER       -> hi

\* the branch of lines 226-258 a key takes; "plain" are the keys that touch
\* neither the region nor the thresholds: s, p and the keys without a binding
Kind(k) ==
    CASE k = K_NONE         -> "poll"
      [] k \in {K_q, K_ESC} -> "quit"
      [] k = K_FINE         -> "fine"
      [] k \in MoveKeys     -> "move"
      [] k \in ResizeKeys   -> "resize"
      [] k \in ThreshKeys   -> "thresh"
      [] OTHER              -> "plain"

\* line 235: step = STEP_FINE if use_fine else STEP
StepOf_Coarse(fine) == STEP

StepOf(fine) == IF fine THEN STEP_FINE ELSE STEP

\* the count of the commands polled since the last ';', k included: 0 when
\* k is ';' itself, negative while no ';' has been polled, at most 2
Since(k) ==
    CASE k = K_FINE     -> 0
      [] since_fine < 0 -> since_fine
      [] OTHER          -> Min(since_fine + 1, 2)

\* line 260: the re-clamp that ends an iteration
Reclamp_Skipped(r) == r

Reclamp(r) == clamp_region(r[1], r[2], r[3], r[4], mon)

\* lines 225-260: one poll of the tuner loop and the command it carries
TunerKey ==
    /\ pc = "tuner_key"
    /\ \E k \in TunerKeys :
         /\ cmd' = Kind(k)
         /\ CASE k \in {K_q, K_ESC} ->
                /\ pc' = "scan_entry"
                /\ UNCHANGED <<x1, y1, x2, y2, lo, hi, use_fine, keys_left,
                               step, since_fine>>
           [] k = K_NONE ->
                /\ keys_left > 0
                /\ keys_left' = keys_left - 1
                /\ pc' = "tuner_grab"
                /\ UNCHANGED <<x1, y1, x2, y2, lo, hi, use_fine, step, since_fine>>
           [] k = K_FINE ->
                /\ keys_left > 0
                /\ keys_left' = keys_left - 1
                /\ use_fine' = TRUE
                /\ since_fine' = Since(k)
                /\ pc' = "tuner_grab"
                /\ UNCHANGED <<x1, y1, x2, y2, lo, hi, step>>
           [] OTHER ->
                /\ keys_left > 0
                /\ keys_left' = keys_left - 1
                /\ step' = StepOf(use_fine)
                /\ SetRegion(Reclamp(Moved(k, step')))
                /\ use_fine' = FALSE
                /\ since_fine' = Since(k)
                /\ lo' = NewLo(k)
                /\ hi' = NewHi(k)
                /\ pc' = "tuner_grab"
    /\ UNCHANGED <<script, pts, cancel_key, mon, scanVars, obsVars, grabbed, pressed,
                   pressVars, runVars, tried>>

(***************************************************************************)
(* Spec: the scanner, entered with the region and thresholds of the        *)
(* scenario of the specification (region (100,100)-(300,250), 50 / 150).   *)
(***************************************************************************)
DefaultMon == [left |-> 0, top |-> 0, width |-> 1920, height |-> 1080]

AuxInit ==
    /\ tries = <<>>
    /\ e1 = FALSE /\ e2 = FALSE /\ ok = FALSE
    /\ focus_log = "none"
    /\ intr_at = "none"
    /\ stop_log = FALSE
    /\ tried = <<>>
    /\ cmd = "none"
    /\ step = 0
    /\ since_fine = 0 - 1

ObsInit ==
    /\ AuxInit
    /\ fired = "none"
    /\ acts = <<>>
    /\ prev = NoTick
    /\ first_tick = TRUE
    /\ first_edge = FALSE
    /\ later_edge = FALSE
    /\ singles = 0
    /\ grabbed = FALSE
    /\ pressed = FALSE

Init ==
    /\ pc = "scan_entry"
    /\ script \in {"any", "late"}
    /\ pts = <<>>
    /\ cancel_key = FALSE
    /\ x1 = 100 /\ y1 = 100 /\ x2 = 300 /\ y2 = 250
    /\ lo = 50 /\ hi = 150
    /\ use_fine = FALSE
    /\ mon = DefaultMon
    /\ keys_left = 0
    /\ clock = 0 /\ now = 0 /\ last_trigger_t = 0 /\ edge_ratio = 0
    /\ focus_title = FALSE
    /\ ObsInit

Next == ScanNext

Spec == Init /\ [][Next]_vars

(***************************************************************************)
(* SpecLive: the scanner in a run without end, fed arbitrary edge ratios.  *)
(* The program is one thread whose statements all return (the grab, the    *)
(* presses, the sleeps), so a step that can be taken is eventually taken.  *)
(***************************************************************************)
InitLive ==
    /\ pc = "scan_entry"
    /\ script = "live"
    /\ pts = <<>>
    /\ cancel_key = FALSE
    /\ x1 = 100 /\ y1 = 100 /\ x2 = 300 /\ y2 = 250
    /\ lo = 50 /\ hi = 150
    /\ use_fine = FALSE
    /\ mon = DefaultMon
    /\ keys_left = 0
    /\ clock = 0 /\ now = 0 /\ last_trigger_t = 0 /\ edge_ratio = 0
    /\ focus_title = FALSE
    /\ ObsInit

SpecLive == InitLive /\ [][Next]_vars /\ WF_vars(Next)

(***************************************************************************)
(* SpecClamp: clamp_region as a function, on every region with x2 > x1 and *)
(* y2 > y1 of a grid that reaches outside the monitor on every side, and   *)
(* on monitors of every size from 1 x 1.                                   *)
(***************************************************************************)
Coords == (0 - MaxOutside)..MaxCoord

ClampMons ==
    [left : {0 - 2, 0}, top : {0, 1}, width : 1..MaxMonSize, height : 1..MaxMonSize]

ScanIdle ==
    /\ script = "none"
    /\ focus_title = FALSE
    /\ clock = 0 /\ now = 0 /\ last_trigger_t = 0 /\ edge_ratio = 0
    /\ ObsInit

InitClamp ==
    /\ pc = "clamp_in"
    /\ pts = <<>>
    /\ cancel_key = FALSE
    /\ x1 \in Coords /\ y1 \in Coords
    /\ x2 \in Coords /\ y2 \in Coords
    /\ x2 > x1 /\ y2 > y1
    /\ lo = 50 /\ hi = 150
    /\ use_fine = FALSE
    /\ mon \in ClampMons
    /\ keys_left = 0
    /\ ScanIdle

NextClamp == ClampApply

SpecClamp == InitClamp /\ [][NextClamp]_vars

(***************************************************************************)
(* SpecTuner: the loop of live_tuner from the state line 204 leaves: two   *)
(* acquired points that passed the check of line 195, clamped once.        *)
(***************************************************************************)
TunerMon == [left |-> 0, top |-> 0, width |-> TunerMonW, height |-> TunerMonH]

TunerPoints == {0 - 2, 6, TunerMonW + 1} \X {0 - 1, 5, TunerMonH + 2}

TunerArgs ==
    {<<50, 150>>, <<0, 255>>, <<255, 0>>, <<0 - MaxArgExcess, 255 + MaxArgExcess>>}

InitTuner ==
    /\ pc = "tuner_grab"
    /\ \E p \in TunerPoints, q \in TunerPoints :
         /\ ~InvalidRegion(p[1], p[2], q[1], q[2])
         /\ pts = <<p, q>>
         /\ LET r == clamp_region(p[1], p[2], q[1], q[2], TunerMon)
            IN  x1 = r[1] /\ y1 = r[2] /\ x2 = r[3] /\ y2 = r[4]
    /\ cancel_key = FALSE
    /\ \E a \in TunerArgs : lo = a[1] /\ hi = a[2]
    /\ use_fine = FALSE
    /\ mon = TunerMon
    /\ keys_left = MaxKeys
    /\ ScanIdle

NextTuner ==
    \/ TunerGrab
    \/ TunerKey

SpecTuner == InitTuner /\ [][NextTuner]_vars

(***************************************************************************)
(* SpecMain: the whole program from main(): two point acquisitions, the    *)
(* check, the tuner, then the scanner fed arbitrary edge ratios for the    *)
(* first MaxShortClock units (the idle action, 25 s away, is out of reach).*)
(***************************************************************************)
MainPoints == {0 - 2, 3, TunerMonW + 1} \X {0 - 1, 4, TunerMonH + 1}

MainArgs == {<<50, 150>>, <<0 - MaxArgExcess, 255 + MaxArgExcess>>}

InitMain ==
    /\ pc = "acquire"
    /\ script = "short"
    /\ pts = <<>>
    /\ cancel_key = FALSE
    /\ x1 = 0 /\ y1 = 0 /\ x2 = 0 /\ y2 = 0
    /\ \E a \in MainArgs : lo = a[1] /\ hi = a[2]
    /\ use_fine = FALSE
    /\ mon = TunerMon
    /\ keys_left = MaxMainKeys
    /\ clock = 0 /\ now = 0 /\ last_trigger_t = 0 /\ edge_ratio = 0
    /\ focus_title = FALSE
    /\ ObsInit

NextMain ==
    \/ AcquireBegin
    \/ HookKey(MainPoints)
    \/ WindowKey(MainPoints)
    \/ Validate
    \/ TunerGrab
    \/ TunerKey
    \/ ScanStart
    \/ Capture
    \/ Decide
    \/ Enter1
    \/ Wait
    \/ Enter2
    \/ Sleep

SpecMain == InitMain /\ [][NextMain]_vars

(***************************************************************************)
(* SpecPress: one tick of the scanner from its if / elif on, taken when    *)
(* cooldown or idle_timeout has just elapsed, with injection mechanisms    *)
(* that may fail: the confirm action of the tick, press by press.          *)
(***************************************************************************)
PressTimes == {cooldown, idle_timeout}

InitPress ==
    /\ pc = "decide"
    /\ script = "press"
    /\ pts = <<>>
    /\ cancel_key = FALSE
    /\ x1 = 100 /\ y1 = 100 /\ x2 = 300 /\ y2 = 250
    /\ lo = 50 /\ hi = 150
    /\ use_fine = FALSE
    /\ mon = DefaultMon
    /\ keys_left = 0
    /\ clock \in PressTimes
    /\ now = clock
    /\ last_trigger_t = 0
    /\ edge_ratio \in EdgeRatios
    /\ focus_title = FALSE
    /\ AuxInit
    /\ fired = "none"
    /\ acts = <<>>
    /\ prev = [edge |-> 0, fired |-> "none", end |-> clock - interval]
    /\ first_tick = FALSE
    /\ first_edge = FALSE
    /\ later_edge = (edge_ratio > 0)
    /\ singles = 0
    /\ grabbed = TRUE
    /\ pressed = FALSE

NextPress ==
    \/ Decide
    \/ Enter1
    \/ Wait
    \/ Enter2
    \/ IdleEnter

SpecPress == InitPress /\ [][NextPress]_vars

(***************************************************************************)
(* SpecRun: scanner from its first line, with or without a focus title,    *)
(* in a run that a Ctrl-C of the operator may end at any position.         *)
(***************************************************************************)
InitRun ==
    /\ pc = "focus"
    /\ script = "run"
    /\ pts = <<>>
    /\ cancel_key = FALSE
    /\ x1 = 100 /\ y1 = 100 /\ x2 = 300 /\ y2 = 250
    /\ lo = 50 /\ hi = 150
    /\ use_fine = FALSE
    /\ mon = DefaultMon
    /\ keys_left = 0
    /\ clock = 0 /\ now = 0 /\ last_trigger_t = 0 /\ edge_ratio = 0
    /\ focus_title \in BOOLEAN
    /\ ObsInit

NextRun ==
    \/ Focus
    \/ Interrupt
    \/ ScanNext

SpecRun == InitRun /\ [][NextRun]_vars

(***************************************************************************)
(* Properties of the scanner (checked under Spec).                         *)
(***************************************************************************)
TickPeriod == interval + MaxCaptureTime

\* the states right after the if / elif of a tick, where last_trigger_t is
\* still the value the branch was decided with
Decided == pc \in {"enter1", "idle_enter"} \/ (pc = "sleep" /\ fired = "none")

TickDone == pc = "sleep"

C1_FiresIff ==
    Decided => ((pc = "enter1") <=> (edge_ratio > 0 /\ now - last_trigger_t >= cooldown))

\* C1 as stated: on every tick the double Enter is fired iff edge_ratio > 0 and
\* now - last_trigger_t >= cooldown, and after it fires last_trigger_t equals
\* the tick's now.
C1_SetToTickNow ==
    /\ C1_FiresIff
    /\ (TickDone /\ fired = "double") => last_trigger_t = now

\* C1 amended: on every tick the double Enter is fired iff edge_ratio > 0 and
\* now - last_trigger_t >= cooldown; after it fires last_trigger_t is a fresh
\* time sample taken when the action has completed, at least the 2.0 s wait
\* later than the tick's now.
C1_SetToCompletionTime ==
    /\ C1_FiresIff
    /\ (TickDone /\ fired = "double") =>
           (last_trigger_t = clock /\ last_trigger_t >= now + DoubleWait)

C1_Witness ==
    TickDone /\ fired = "double" /\ acts = <<"double">> /\ last_trigger_t > now

\* C2: at most one confirm action is completed per tick, it is the one of the
\* branch taken, and a tick with edges whose elapsed time has reached
\* idle_timeout takes the double Enter branch, not the idle one.
C2_PositiveHasPriority ==
    /\ Len(acts) <= 1
    /\ TickDone => acts = (IF fired = "none" THEN <<>> ELSE <<fired>>)
    /\ (Decided /\ edge_ratio > 0 /\ now - last_trigger_t >= idle_timeout) =>
           (pc = "enter1" /\ fired = "double")

C2_Witness ==
    pc = "enter1" /\ edge_ratio > 0 /\ now - last_trigger_t >= idle_timeout

\* two consecutive completed ticks that both saw edges, the second sampled
\* less than cooldown after the first one ended
EdgePair ==
    /\ TickDone
    /\ prev.fired # "start"
    /\ prev.edge > 0
    /\ edge_ratio > 0
    /\ now - prev.end < cooldown

Doubles2 ==
    (IF prev.fired = "double" THEN 1 ELSE 0) + (IF fired = "double" THEN 1 ELSE 0)

\* C3 as stated: two consecutive ticks with edges less than cooldown apart
\* fire exactly one double Enter between them.
C3_ExactlyOne == EdgePair => Doubles2 = 1

\* C3 amended: two consecutive ticks with edges less than cooldown apart fire
\* at most one double Enter between them: never two, and none on the second
\* when the first fired.
C3_AtMostOne ==
    EdgePair => (Doubles2 <= 1 /\ (prev.fired = "double" => fired = "none"))

C3_Witness == EdgePair /\ prev.fired = "double" /\ fired = "none"

AllZero == ~first_edge /\ ~later_edge

\* C4: while every tick has edge_ratio 0 the double Enter is never fired; the
\* idle Enter is fired on a tick exactly when idle_timeout has elapsed since
\* last_trigger_t, which is then less than one tick period past idle_timeout
\* (never early, so never twice within one interval, and never skipped).
C4_IdleOncePerInterval ==
    AllZero =>
        /\ pc \notin {"enter1", "wait", "enter2"}
        /\ fired # "double"
        /\ pc = "idle_enter" =>
               /\ now - last_trigger_t >= idle_timeout
               /\ now - last_trigger_t < idle_timeout + TickPeriod
        /\ (TickDone /\ fired = "none") => now - last_trigger_t < idle_timeout
        /\ singles * idle_timeout <= last_trigger_t

C4_Witness == AllZero /\ TickDone /\ fired = "single" /\ singles = 2

Scenario == first_edge /\ ~later_edge

\* C5 as stated: with edge ratio 0.10 on the tick at t = 0 the double Enter
\* fires on that tick and last_trigger_t becomes 0; with 0.0 afterwards the
\* idle Enter fires at t ~ 25.0 and not again until t ~ 50.0.
C5_FiresAtStart ==
    Scenario =>
        /\ (first_tick /\ TickDone) => (fired = "double" /\ last_trigger_t = 0)
        /\ (pc = "idle_enter" /\ singles = 0) =>
               (now >= idle_timeout /\ now < idle_timeout + TickPeriod)
        /\ pc = "idle_enter" => now - last_trigger_t >= idle_timeout

\* C5 amended: with edge ratio 0.10 on the first tick (t ~ 0, less than
\* cooldown after the loop started) the double Enter does not fire and
\* last_trigger_t stays 0, the start of the loop; with 0.0 afterwards the idle
\* Enter fires once at t ~ 25.0 and not again until t ~ 50.0.
C5_NoFireAtStart ==
    Scenario =>
        /\ pc \notin {"enter1", "wait", "enter2"}
        /\ (first_tick /\ TickDone) => (fired = "none" /\ last_trigger_t = 0)
        /\ singles = 0 => last_trigger_t = 0
        /\ (pc = "idle_enter" /\ singles = 0) =>
               (now >= idle_timeout /\ now < idle_timeout + TickPeriod)
        /\ (pc = "idle_enter" /\ singles = 1) =>
               /\ now >= 2 * idle_timeout
               /\ now < 2 * idle_timeout + 2 * TickPeriod + MaxPressTime
        /\ pc = "idle_enter" => now - last_trigger_t >= idle_timeout
        /\ (TickDone /\ fired = "none") => now - last_trigger_t < idle_timeout

C5_Witness == Scenario /\ TickDone /\ fired = "single" /\ singles = 2

\* the end of a tick: an action was fired on it, or less than idle_timeout
\* has passed between last_trigger_t and the tick's now
TickEndOk == TickDone => (fired # "none" \/ now - last_trigger_t < idle_timeout)

\* C16: in every run without end, whatever the edge ratios, every tick ends
\* with an action fired on it or with now - last_trigger_t < idle_timeout,
\* and again and again a tick ends with a confirm action fired.
C16_Heartbeat == []TickEndOk /\ []<>(TickDone /\ fired # "none")

C16_Witness == pc = "idle_enter" /\ later_edge /\ pressed /\ prev.fired = "none"

\* C17: after its initialisation at line 285, before the first tick, a step
\* of the loop changes last_trigger_t only when it completes a
\* confirm action (the second press of a double Enter or the idle Enter), and
\* then to the time sampled at that moment, so a tick that fires no action
\* leaves it unchanged; no step changes the region or the thresholds.
C17_WrittenOnlyAfterAction ==
    [][ /\ (pc \in InTry /\ last_trigger_t' # last_trigger_t) =>
              /\ pc \in {"enter2", "idle_enter"}
              /\ pc' = "sleep"
              /\ last_trigger_t' = clock'
        /\ UNCHANGED <<x1, y1, x2, y2, lo, hi>> ]_vars

C17_Witness ==
    /\ pc = "grab"
    /\ prev.fired = "none"
    /\ prev.edge > 0
    /\ last_trigger_t > 0
    /\ prev.end > last_trigger_t

(***************************************************************************)
(* Properties of clamp_region (SpecClamp), of the tuner loop (SpecTuner)   *)
(* and of the whole program (SpecMain).                                    *)
(***************************************************************************)
\* C6: for every region with x2 > x1 and y2 > y1, inside or outside the
\* monitor, and every monitor, clamp_region returns a region with x2 > x1 and
\* y2 > y1 whose pixels [x1,x2) x [y1,y2) lie in [left,left+W) x [top,top+H);
\* on a monitor at least 2 wide (high) the corner x2 (y2) itself lies in it.
C6_ClampInsideMonitor ==
    pc = "clamp_out" =>
        /\ x2 > x1 /\ y2 > y1
        /\ mon.left <= x1 /\ x2 <= mon.left + mon.width
        /\ mon.top <= y1 /\ y2 <= mon.top + mon.height
        /\ mon.width >= 2 => x2 < mon.left + mon.width
        /\ mon.height >= 2 => y2 < mon.top + mon.height

C6_Witness ==
    /\ pc = "clamp_out"
    /\ mon.width >= 2 /\ mon.height >= 2
    /\ x1 = mon.left + mon.width - 2 /\ x2 = x1 + 1
    /\ y1 = mon.top /\ y2 = mon.top + mon.height - 1

InTuner == pc \in {"tuner_grab", "tuner_key", "scan_entry"}

\* C7: whatever the starting values and the commands given, the thresholds lo
\* and hi of the tuner, and those it returns, are within 0..255.
C7_ThresholdsInRange == InTuner => (lo \in 0..255 /\ hi \in 0..255)

RegionOnMonitor ==
    /\ x2 > x1 /\ y2 > y1
    /\ mon.left <= x1 /\ x2 < mon.left + mon.width
    /\ mon.top <= y1 /\ y2 < mon.top + mon.height

\* C8: the region of the tuner at every capture (tuner_key is the state a
\* capture leaves) and the region returned on quit (scan_entry) has
\* x2 > x1, y2 > y1 and lies on the monitor.
C8_RegionOnMonitor == InTuner => RegionOnMonitor

C8_Witness ==
    /\ pc = "scan_entry"
    /\ keys_left = 0
    /\ grabbed
    /\ <<x1, y1, x2, y2>> #
           clamp_region(pts[1][1], pts[1][2], pts[2][1], pts[2][2], mon)

\* C18: the fine step is one-shot.  While ';' is the last key polled, empty
\* polls apart, the modifier is pending; the first command after it finds it
\* and, when it is a move or a resize, uses the step STEP_FINE; that command
\* consumes it, so that every later command, and every command of a run in
\* which ';' has not been pressed, uses STEP.
C18_FineStepOneShot ==
    InTuner =>
        /\ use_fine <=> since_fine = 0
        /\ (cmd \in {"move", "resize"} /\ since_fine = 1) => step = STEP_FINE
        /\ (cmd \in {"move", "resize"} /\ since_fine # 1) => step = STEP

C18_Witness ==
    /\ pc = "tuner_grab"
    /\ cmd = "move"
    /\ since_fine = 2
    /\ step = STEP
    /\ ~use_fine

Width == x2 - x1

Height == y2 - y1

\* C19: a move command leaves the width and the height of the region, as
\* they are after the re-clamp that ends the iteration, equal to what they
\* were before the command, wherever the region is on the monitor.
C19_MoveKeepsSize ==
    [][(pc = "tuner_key" /\ cmd' = "move") => (Width' = Width /\ Height' = Height)]_vars

Region == <<x1, y1, x2, y2>>

\* C20: the region of the tuner is a fixed point of clamp_region before and
\* after every poll; a threshold, save or print command (and a key without
\* a binding, ';' or an empty poll) leaves the four coordinates unchanged,
\* and a resize command leaves x1 and y1 unchanged.
C20_ClampIdempotent ==
    [][ pc = "tuner_key" =>
          /\ Reclamp(Region) = Region
          /\ Reclamp(Region') = Region'
          /\ cmd' \in {"thresh", "plain", "fine", "poll"} => Region' = Region
          /\ cmd' = "resize" => (x1' = x1 /\ y1' = y1) ]_vars

C20_Witness ==
    /\ pc = "tuner_grab"
    /\ cmd = "resize"
    /\ keys_left = MaxKeys - 1
    /\ Region # clamp_region(pts[1][1], pts[1][2], pts[2][1], pts[2][2], mon)

PointsInvalid ==
    /\ Len(pts) = 2
    /\ (pts[2][1] <= pts[1][1] \/ pts[2][2] <= pts[1][2])

\* C9: when the second acquired point is not strictly below and right of the
\* first, the run ends at the check of line 195: nothing is captured, the
\* scanner is not entered and no Enter is injected.
C9_InvalidRegionAborts ==
    PointsInvalid =>
        /\ pc \in {"validate", "exit_invalid"}
        /\ ~grabbed
        /\ ~pressed

C9_Witness == PointsInvalid /\ pc = "exit_invalid" /\ pts[2][1] > pts[1][1]

\* C10: once a cancel key (Esc / q) has been pressed during the acquisition
\* of a corner, whichever method is waiting, the run is over: no further
\* point is asked for, nothing is captured, the scanner is not entered.
C10_CancelAborts ==
    cancel_key => (pc \in {"hook", "window", "cancelled"} /\ ~grabbed /\ ~pressed)

\* C15: an acquisition tries the global key wait first, the prompt window
\* when the key wait failed, and the console prompt when the window failed
\* too, so that it fails only when all three methods have been tried and
\* have failed.
C15_ThreeMethods ==
    /\ pc = "hook" => tried = <<"hook">>
    /\ pc = "window" => tried = <<"hook", "window">>
    /\ pc = "acq_failed" => tried = <<"hook", "window", "console">>

(***************************************************************************)
(* Properties of the confirm actions (SpecPress).                          *)
(***************************************************************************)
Injected(p) == \E i \in 1..3 : p.att[i][2] = "ok"

\* C11: every call of press_enter_multimethod_once attempts the three
\* mechanisms in the order pyautogui press, keyboard send, scancode
\* SendInput, the later ones whatever the earlier ones did; an Exception of a
\* mechanism does not leave the call; the call returns True if at least one
\* mechanism injected the key, and False only when all three failed.
C11_AllThreeInOrder ==
    \A n \in 1..Len(tries) :
        /\ Len(tries[n].att) = 3
        /\ \A i \in 1..3 : tries[n].att[i][1] = Mechanisms[i]
        /\ Injected(tries[n]) => tries[n].res
        /\ ~tries[n].res => \A i \in 1..3 : tries[n].att[i][2] = "exc"

C11_Witness ==
    /\ Len(tries) = 2
    /\ tries[1].att = <<<<"pyautogui", "ok">>, <<"keyboard", "exc">>, <<"sendinput", "ok">>>>
    /\ tries[1].res
    /\ tries[2].att = <<<<"pyautogui", "exc">>, <<"keyboard", "exc">>, <<"sendinput", "exc">>>>
    /\ ~tries[2].res

\* C12: a completed double Enter made exactly two calls of
\* press_enter_multimethod_once, the second one starting DoubleWait after the
\* first returned and made whatever the first returned, and its result is
\* True iff both calls returned True; a completed idle Enter made exactly
\* one call and its result is the result of that call.
C12_ConfirmResults ==
    /\ pc \in {"wait", "enter2"} => Len(tries) = 1 /\ e1 = tries[1].res
    /\ (TickDone /\ fired = "double") =>
           /\ Len(tries) = 2
           /\ tries[2].from = tries[1].to + DoubleWait
           /\ ok = (tries[1].res /\ tries[2].res)
    /\ (TickDone /\ fired = "single") =>
           /\ Len(tries) = 1
           /\ ok = tries[1].res
    /\ (TickDone /\ fired = "none") => Len(tries) = 0

C12_Witness ==
    /\ TickDone /\ fired = "double"
    /\ Len(tries) = 2
    /\ ~tries[1].res /\ tries[2].res
    /\ ~ok

(***************************************************************************)
(* Properties of a run of scanner that may be interrupted (SpecRun).       *)
(***************************************************************************)
\* C13: when a focus title is given, then whichever way the lookup of the
\* window fails, the focus step is not fatal: once the step is over (and no
\* Ctrl-C ended it) its outcome has been logged and scanner has not ended
\* with an error: it goes on to the loop.
C13_FocusNeverFatal ==
    (focus_title /\ intr_at = "none" /\ pc # "focus") =>
        /\ pc # "crashed"
        /\ focus_log # "none"

\* C14: a Ctrl-C that arrives at any position of scanner, the focus step
\* included, is caught: the run is stopped with "Stopped." logged (after
\* which nothing is captured or pressed), not killed.
C14_InterruptCaught ==
    intr_at # "none" => (pc = "stopped" /\ stop_log)

\* what the code does guarantee: a Ctrl-C inside the loop is caught
InLoopInterruptCaught ==
    intr_at \in InTry => (pc = "stopped" /\ stop_log)

====
